---------------------------- MODULE Spec2Model ----------------------------
(***************************************************************************)
(* A model of jaynode's personal-finance core:                             *)
(*   - src/streamlit/finance_utils.py: the classifiers, clean_amount,      *)
(*     normalize, save_to_db (the transactions table) and                  *)
(*     find_monthly_subscriptions;                                         *)
(*   - src/streamlit/pages/Waterfall.py: the saving_goals store and        *)
(*     allocate_cash.                                                      *)
(*                                                                         *)
(* Text is modelled by TLA+ strings and handled character by character.    *)
(* A float holding a money amount is modelled by the integer number of     *)
(* hundredths it denotes (1234.56 is 123456); the amount texts of the      *)
(* model have at most two fraction digits and none is of the forms "nan",  *)
(* "inf" or "1e3".  A pandas missing value (NaN / None) is the cell NA.    *)
(***************************************************************************)
EXTENDS Integers, Sequences, FiniteSets, TLC

VARIABLES
    \* ---- clean_amount called on one row ----
    ca_row,        \* the row handed to clean_amount: [Amount, Type]
    ca_out,        \* what clean_amount returned: [called, v]
    \* ---- normalize called on one uploaded frame ----
    nz_df,         \* the raw frame: [cols, rows]
    nz_source,     \* the source label picked in the selectbox
    nz_out,        \* what normalize returned: [called, ok, rows]
    \* ---- one dashboard session importing a statement ----
    im_start,      \* the stored rows before the session's first save
    im_table,      \* airflow_data.transactions: the set of stored rows
    im_raw,        \* the uploaded statement: [df, source]
    im_norm,       \* df_normalized of the current script run
    im_pc,         \* "upload" (normalize next) or "save" (save_to_db next)
    im_runs,       \* completed save_to_db calls
    im_after1,     \* the table as the first save_to_db left it
    im_err,        \* TRUE once a save_to_db raised
    \* ---- two sessions saving concurrently ----
    st_table,      \* the committed rows of airflow_data.transactions
    st_sess,       \* per session: [pc, raw, rows, i, pending, skipped];
                   \* pending: the rows its open transaction wrote,
                   \* skipped: its rows whose key it found stored
    \* ---- the savings-goal page ----
    sg_ready,      \* TRUE once init_db has run
    sg_goals,      \* saving_goals: the set of stored rows [id, name, ...]
    sg_next_id,    \* the SERIAL sequence of saving_goals.id
    sg_balance,    \* the balance of the last render
    sg_view,       \* what allocate_cash returned at the last render
    sg_called,     \* TRUE when sg_view is the result of a render
    sg_progress,   \* the progress value main computed for each goal shown
    \* ---- the classifiers called on one cell ----
    cl_text,       \* the cell handed to clean_category and clean_type
    cl_out,        \* what they returned: [cat_called, category, tp_called, type]
    \* ---- find_monthly_subscriptions called on one frame ----
    fs_df,         \* the transactions: a sequence of rows
    fs_min,        \* min_months
    fs_out,        \* what it returned: [called, subs]
    \* ---- allocate_cash called again on the same Goal objects ----
    ac_goals,      \* the caller's list of Goal objects
    ac_balance,    \* the balance of every call
    ac_views       \* what each call so far returned

vars == <<ca_row, ca_out, nz_df, nz_source, nz_out,
          im_start, im_table, im_raw, im_norm, im_pc, im_runs, im_after1, im_err,
          st_table, st_sess,
          sg_ready, sg_goals, sg_next_id, sg_balance, sg_view, sg_called,
          sg_progress, cl_text, cl_out, fs_df, fs_min, fs_out,
          ac_goals, ac_balance, ac_views>>

ca_vars == <<ca_row, ca_out>>
nz_vars == <<nz_df, nz_source, nz_out>>
im_vars == <<im_start, im_table, im_raw, im_norm, im_pc, im_runs, im_after1, im_err>>
st_vars == <<st_table, st_sess>>
sg_vars == <<sg_ready, sg_goals, sg_next_id, sg_balance, sg_view, sg_called,
            sg_progress>>
cl_vars == <<cl_text, cl_out>>
fs_vars == <<fs_df, fs_min, fs_out>>
ac_vars == <<ac_goals, ac_balance, ac_views>>

\* What a step of one part leaves alone: the other parts.
not_ca == <<nz_vars, im_vars, st_vars, sg_vars, cl_vars, fs_vars, ac_vars>>
not_nz == <<ca_vars, im_vars, st_vars, sg_vars, cl_vars, fs_vars, ac_vars>>
not_im == <<ca_vars, nz_vars, st_vars, sg_vars, cl_vars, fs_vars, ac_vars>>
not_st == <<ca_vars, nz_vars, im_vars, sg_vars, cl_vars, fs_vars, ac_vars>>
not_sg == <<ca_vars, nz_vars, im_vars, st_vars, cl_vars, fs_vars, ac_vars>>
not_cl == <<ca_vars, nz_vars, im_vars, st_vars, sg_vars, fs_vars, ac_vars>>
not_fs == <<ca_vars, nz_vars, im_vars, st_vars, sg_vars, cl_vars, ac_vars>>
not_ac == <<ca_vars, nz_vars, im_vars, st_vars, sg_vars, cl_vars, fs_vars>>

-----------------------------------------------------------------------------
(* Text primitives: str.lower, str.strip, str.title, str.replace, `in`.    *)

\* A missing cell (pd.isna is true of it); str() of it is "nan".
NA == "<NA>"

IsNA(x) == x = NA

\* str(x) of a cell.
Str(x) == IF IsNA(x) THEN "nan" ELSE x

UpperToLower ==
    ("A" :> "a") @@ ("B" :> "b") @@ ("C" :> "c") @@ ("D" :> "d") @@
    ("E" :> "e") @@ ("F" :> "f") @@ ("G" :> "g") @@ ("H" :> "h") @@
    ("I" :> "i") @@ ("J" :> "j") @@ ("K" :> "k") @@ ("L" :> "l") @@
    ("M" :> "m") @@ ("N" :> "n") @@ ("O" :> "o") @@ ("P" :> "p") @@
    ("Q" :> "q") @@ ("R" :> "r") @@ ("S" :> "s") @@ ("T" :> "t") @@
    ("U" :> "u") @@ ("V" :> "v") @@ ("W" :> "w") @@ ("X" :> "x") @@
    ("Y" :> "y") @@ ("Z" :> "z")

LowerToUpper ==
    ("a" :> "A") @@ ("b" :> "B") @@ ("c" :> "C") @@ ("d" :> "D") @@
    ("e" :> "E") @@ ("f" :> "F") @@ ("g" :> "G") @@ ("h" :> "H") @@
    ("i" :> "I") @@ ("j" :> "J") @@ ("k" :> "K") @@ ("l" :> "L") @@
    ("m" :> "M") @@ ("n" :> "N") @@ ("o" :> "O") @@ ("p" :> "P") @@
    ("q" :> "Q") @@ ("r" :> "R") @@ ("s" :> "S") @@ ("t" :> "T") @@
    ("u" :> "U") @@ ("v" :> "V") @@ ("w" :> "W") @@ ("x" :> "X") @@
    ("y" :> "Y") @@ ("z" :> "Z")

CharAt(s, i) == SubSeq(s, i, i)

LowerChar(c) == IF c \in DOMAIN UpperToLower THEN UpperToLower[c] ELSE c

UpperChar(c) == IF c \in DOMAIN LowerToUpper THEN LowerToUpper[c] ELSE c

IsCased(c) == c \in DOMAIN UpperToLower \/ c \in DOMAIN LowerToUpper

RECURSIVE Lower(_)
\* s.lower()
Lower(s) ==
    IF Len(s) = 0 THEN ""
    ELSE LowerChar(CharAt(s, 1)) \o Lower(SubSeq(s, 2, Len(s)))

IsSpace(c) == c = " "

RECURSIVE LStrip(_)
LStrip(s) ==
    IF Len(s) > 0 /\ IsSpace(CharAt(s, 1))
    THEN LStrip(SubSeq(s, 2, Len(s)))
    ELSE s

RECURSIVE RStrip(_)
RStrip(s) ==
    IF Len(s) > 0 /\ IsSpace(CharAt(s, Len(s)))
    THEN RStrip(SubSeq(s, 1, Len(s) - 1))
    ELSE s

\* s.strip()
Strip(s) == RStrip(LStrip(s))

RECURSIVE TitleFrom(_, _)
\* The rest of s.title(), given whether the character before was cased.
TitleFrom(s, afterCased) ==
    IF Len(s) = 0 THEN ""
    ELSE LET c == CharAt(s, 1)
         IN  (IF afterCased THEN LowerChar(c) ELSE UpperChar(c))
             \o TitleFrom(SubSeq(s, 2, Len(s)), IsCased(c))

\* s.title(): a letter after a letter is lower-cased, any other is upper-cased.
Title(s) == TitleFrom(s, FALSE)

RECURSIVE Remove(_, _)
\* s.replace(c, "") for a one-character c.
Remove(s, c) ==
    IF Len(s) = 0 THEN ""
    ELSE (IF CharAt(s, 1) = c THEN "" ELSE CharAt(s, 1))
         \o Remove(SubSeq(s, 2, Len(s)), c)

\* k in s
Contains(s, k) ==
    \E i \in 1..(Len(s) - Len(k) + 1) : SubSeq(s, i, i + Len(k) - 1) = k

\* any(k in s for k in ks)
AnyIn(s, ks) == \E k \in ks : Contains(s, k)

-----------------------------------------------------------------------------
(* Numbers: float(text) and str(float), in hundredths.                     *)

DigitVal ==
    ("0" :> 0) @@ ("1" :> 1) @@ ("2" :> 2) @@ ("3" :> 3) @@ ("4" :> 4) @@
    ("5" :> 5) @@ ("6" :> 6) @@ ("7" :> 7) @@ ("8" :> 8) @@ ("9" :> 9)

DigitChar == <<"0", "1", "2", "3", "4", "5", "6", "7", "8", "9">>

IsDigits(s) == \A i \in 1..Len(s) : CharAt(s, i) \in DOMAIN DigitVal

RECURSIVE ParseNat(_)
\* The number a string of digits denotes ("" denotes 0).
ParseNat(s) ==
    IF Len(s) = 0 THEN 0
    ELSE 10 * ParseNat(SubSeq(s, 1, Len(s) - 1)) + DigitVal[CharAt(s, Len(s))]

RECURSIVE NatToStr(_)
NatToStr(n) ==
    IF n < 10 THEN DigitChar[n + 1]
    ELSE NatToStr(n \div 10) \o DigitChar[(n % 10) + 1]

Abs(v) == IF v < 0 THEN -v ELSE v

\* The hundredths an unsigned decimal text denotes: digits, optionally a
\* point and digits, with a digit on at least one side of the point.
ParseUnsigned(s) ==
    LET dots == {i \in 1..Len(s) : CharAt(s, i) = "."}
        dot  == IF dots = {} THEN Len(s) + 1 ELSE CHOOSE i \in dots : TRUE
        ip   == SubSeq(s, 1, dot - 1)
        fp   == SubSeq(s, dot + 1, Len(s))
        fp2  == SubSeq(fp \o "00", 1, 2)
    IN  IF Cardinality(dots) > 1 \/ ~IsDigits(ip) \/ ~IsDigits(fp)
           \/ Len(ip) + Len(fp) = 0
        THEN [ok |-> FALSE, v |-> 0]
        ELSE [ok |-> TRUE, v |-> 100 * ParseNat(ip) + ParseNat(fp2)]

\* float(s): ok is FALSE where float raises ValueError.
ParseFloat(s0) ==
    LET s    == Strip(s0)
        sign == IF Len(s) > 0 /\ CharAt(s, 1) \in {"+", "-"} THEN CharAt(s, 1) ELSE ""
        body == SubSeq(s, Len(sign) + 1, Len(s))
        u    == ParseUnsigned(body)
    IN  IF ~u.ok THEN u
        ELSE [ok |-> TRUE, v |-> IF sign = "-" THEN -u.v ELSE u.v]

\* str(x) of a float x: the shortest decimal, with at least one fraction digit.
FormatFloat(v) ==
    LET a  == Abs(v)
        fp == a % 100
    IN  (IF v < 0 THEN "-" ELSE "")
        \o NatToStr(a \div 100) \o "."
        \o (IF fp % 10 = 0 THEN NatToStr(fp \div 10)
            ELSE NatToStr(fp \div 10) \o NatToStr(fp % 10))

-----------------------------------------------------------------------------
(* Classifiers.                                                            *)

\* clean_category(cat)
clean_category(cat0) ==
    IF IsNA(cat0) THEN "Uncategorized"
    ELSE LET cat == Strip(Lower(cat0))
         IN  IF AnyIn(cat, {"food", "restaurant", "drink"}) THEN "Food & Drink"
             ELSE IF AnyIn(cat, {"gas", "fuel"}) THEN "Gas"
             ELSE IF Contains(cat, "grocery") THEN "Groceries"
             ELSE IF AnyIn(cat, {"travel", "airline", "hotel"}) THEN "Travel"
             ELSE IF AnyIn(cat, {"entertainment", "movies", "theater"}) THEN "Entertainment"
             ELSE IF AnyIn(cat, {"utility", "bill"}) THEN "Utilities"
             ELSE IF AnyIn(cat, {"health", "medical"}) THEN "Health & Wellness"
             ELSE IF AnyIn(cat, {"shop", "retail", "clothing"}) THEN "Shopping"
             ELSE IF AnyIn(cat, {"fees", "adjustment", "charge"}) THEN "Fees & Adjustments"
             ELSE IF AnyIn(cat, {"donation", "gift"}) THEN "Gifts & Donations"
             ELSE IF AnyIn(cat, {"personal", "home", "auto"}) THEN "Personal & Home"
             ELSE IF Contains(cat, "misc") THEN "Misc"
             ELSE Title(cat)

\* A clean_type that hands an unmatched type back as written.
clean_type_untitled(tp0) ==
    IF IsNA(tp0) THEN "Other"
    ELSE LET tp == Strip(Lower(tp0))
         IN  IF AnyIn(tp, {"deposit", "income", "return"}) THEN "Income"
             ELSE IF AnyIn(tp, {"payment", "withdrawal", "purchase", "debit"}) THEN "Spending"
             ELSE IF Contains(tp, "transfer") THEN "Transfer"
             ELSE IF Contains(tp, "interest") THEN "Interest"
             ELSE tp0

\* A clean_type that tests the Spending keywords before the Income ones.
clean_type_spending_first(tp0) ==
    IF IsNA(tp0) THEN "Other"
    ELSE LET tp == Strip(Lower(tp0))
         IN  IF AnyIn(tp, {"payment", "withdrawal", "purchase", "debit"}) THEN "Spending"
             ELSE IF AnyIn(tp, {"deposit", "income", "return"}) THEN "Income"
             ELSE IF Contains(tp, "transfer") THEN "Transfer"
             ELSE IF Contains(tp, "interest") THEN "Interest"
             ELSE Title(tp)

\* clean_type(tp)
clean_type(tp0) ==
    IF IsNA(tp0) THEN "Other"
    ELSE LET tp == Strip(Lower(tp0))
         IN  IF AnyIn(tp, {"deposit", "income", "return"}) THEN "Income"
             ELSE IF AnyIn(tp, {"payment", "withdrawal", "purchase", "debit"}) THEN "Spending"
             ELSE IF Contains(tp, "transfer") THEN "Transfer"
             ELSE IF Contains(tp, "interest") THEN "Interest"
             ELSE Title(tp)

\* A clean_amount that keeps the parsed sign whatever the type says.
clean_amount_sign_as_is(row) ==
    LET amt_str == Strip(Remove(Remove(Str(row.Amount), "$"), ","))
        p       == ParseFloat(amt_str)
    IN  IF ~p.ok THEN 0 ELSE p.v

\* clean_amount(row): row.Type is NA where row.get("Type", "") finds NaN;
\* a row without a Type key has Type "".
clean_amount(row) ==
    LET amt_str  == Strip(Remove(Remove(Str(row.Amount), "$"), ","))
        p        == ParseFloat(amt_str)
        raw_type == Lower(Str(row.Type))
    IN  IF ~p.ok THEN 0
        ELSE IF raw_type \in {"income", "deposit", "return", "credit"} THEN Abs(p.v)
        ELSE IF raw_type \in {"payment", "withdrawal", "debit", "purchase"} THEN -Abs(p.v)
        ELSE p.v

-----------------------------------------------------------------------------
(* clean_amount on its own.                                                *)

AmountTexts ==
    {"$1,234.56", "-50", "50", " 12.5 ", "-$7.25", "+3", ".5", "5.", "0",
     "abc", "", "1.2.3", "--5", "(5.00)", "-", "."}

TypeHints ==
    {"Payment", "Deposit", "income", "RETURN", "credit", "withdrawal",
     "Debit", "purchase", "Transfer", " payment", "Sale", "", NA}

CaInit ==
    /\ ca_row \in [Amount : AmountTexts, Type : TypeHints]
    /\ ca_out = [called |-> FALSE, v |-> 0]

\* One call of clean_amount.
CaCall ==
    /\ ~ca_out.called
    /\ ca_out' = [called |-> TRUE, v |-> clean_amount(ca_row)]
    /\ UNCHANGED <<ca_row, not_ca>>

-----------------------------------------------------------------------------
(* normalize.                                                              *)

\* The per-source column-rename maps of normalize.
mappings ==
    ("usaa" :> (("Date" :> "Transaction Date") @@ ("Description" :> "Description")
                @@ ("Category" :> "Category") @@ ("Amount" :> "Amount")))
    @@ ("chase" :> <<>>)
    @@ ("apple" :> (("Transaction Date" :> "Transaction Date")
                    @@ ("Clearing Date" :> "Post Date")
                    @@ ("Description" :> "Description")
                    @@ ("Merchant" :> "Merchant")
                    @@ ("Amount (USD)" :> "Amount")))
    @@ ("frost" :> <<>>)
    @@ ("american_express" :> (("Transaction Date" :> "Transaction Date")
                               @@ ("Clearing Date" :> "Post Date")
                               @@ ("Description" :> "Description")
                               @@ ("Merchant" :> "Merchant")
                               @@ ("Amount (USD)" :> "Amount")))

\* df.rename(columns=m)
Rename(df, m) ==
    LET to(c)   == IF c \in DOMAIN m THEN m[c] ELSE c
        newcols == {to(c) : c \in df.cols}
    IN  [cols |-> newcols,
         rows |-> [i \in DOMAIN df.rows |->
                     [n \in newcols |->
                        df.rows[i][CHOOSE c \in df.cols : to(c) = n]]]]

TwoDigits(n) == IF n < 10 THEN "0" \o NatToStr(n) ELSE NatToStr(n)

\* str(pd.to_datetime(x)) of one cell: "YYYY-MM-DD" and "MM/DD/YYYY" texts
\* parse, a missing cell is NaT, any other text makes to_datetime raise.
ToDatetime(x) ==
    IF IsNA(x) THEN [ok |-> TRUE, s |-> "NaT"]
    ELSE
    LET iso == /\ Len(x) = 10 /\ CharAt(x, 5) = "-" /\ CharAt(x, 8) = "-"
               /\ IsDigits(SubSeq(x, 1, 4)) /\ IsDigits(SubSeq(x, 6, 7))
               /\ IsDigits(SubSeq(x, 9, 10))
        us  == /\ Len(x) = 10 /\ CharAt(x, 3) = "/" /\ CharAt(x, 6) = "/"
               /\ IsDigits(SubSeq(x, 1, 2)) /\ IsDigits(SubSeq(x, 4, 5))
               /\ IsDigits(SubSeq(x, 7, 10))
        y   == IF iso THEN ParseNat(SubSeq(x, 1, 4)) ELSE ParseNat(SubSeq(x, 7, 10))
        m   == IF iso THEN ParseNat(SubSeq(x, 6, 7)) ELSE ParseNat(SubSeq(x, 1, 2))
        d   == IF iso THEN ParseNat(SubSeq(x, 9, 10)) ELSE ParseNat(SubSeq(x, 4, 5))
    IN  IF (iso \/ us) /\ m \in 1..12 /\ d \in 1..31
        THEN [ok |-> TRUE,
              s  |-> NatToStr(y) \o "-" \o TwoDigits(m) \o "-" \o TwoDigits(d)
                     \o " 00:00:00"]
        ELSE [ok |-> FALSE, s |-> ""]

\* The marker of a card issuer's mobile payment.
MobileMarker == "Payment Thank You-Mobile -"

\* mask_mobile_pay of one row: str.contains(marker, case=False, na=False).
mask_mobile_pay(description) ==
    ~IsNA(description) /\ Contains(Lower(description), Lower(MobileMarker))

\* A derivation of Transaction Type that lacks the mobile-payment override.
transaction_type_sign_only(amount_changed, description) ==
    IF amount_changed > 0 THEN "Income" ELSE "Spending"

\* The Transaction Type column: by sign, then the mobile-payment override.
transaction_type(amount_changed, description) ==
    IF mask_mobile_pay(description) THEN "Payment"
    ELSE IF amount_changed > 0 THEN "Income" ELSE "Spending"

\* hashlib.sha256(uid.encode()).hexdigest(), the hash taken as injective.
Sha256Hex(uid) == <<"sha256", uid>>

\* _make_id(r)
make_id(r) ==
    Sha256Hex(Str(r["Transaction Date"]) \o "_" \o FormatFloat(r["Amount_Changed"])
              \o "_" \o Str(r["Description"]) \o "_" \o Str(r["source"]))

\* The core cleans of normalize on one row that has every column they read.
CleanRow(r) ==
    LET category == clean_category(r["Category"])
        type     == clean_type(r["Type"])
        amount_changed == clean_amount([Amount |-> r["Amount"], Type |-> type])
        tt       == transaction_type(amount_changed, r["Description"])
        type2    == IF mask_mobile_pay(r["Description"]) THEN "Payment" ELSE type
    IN  [transaction_id   |-> make_id([r EXCEPT !["Amount"] = amount_changed]
                                       @@ ("Amount_Changed" :> amount_changed)),
         transaction_date |-> r["Transaction Date"],
         description      |-> r["Description"],
         category         |-> category,
         type             |-> type2,
         amount           |-> amount_changed,
         source           |-> r["source"],
         transaction_type |-> tt,
         amount_changed   |-> amount_changed]

Raised == [ok |-> FALSE, rows |-> <<>>]

\* The source-mapping block of normalize (rename, parse dates, stamp the
\* source, append the merchant); ok is FALSE where it raises.
MapSource(df0, source) ==
    LET df    == Rename(df0, mappings[Lower(source)])
        dates == [i \in DOMAIN df.rows |-> ToDatetime(df.rows[i]["Transaction Date"])]
        cols2 == df.cols \cup {"source"}
    IN  IF "Transaction Date" \notin df.cols THEN [ok |-> FALSE, df |-> df]
        ELSE IF \E i \in DOMAIN df.rows : ~dates[i].ok THEN [ok |-> FALSE, df |-> df]
        ELSE IF "Merchant" \in df.cols /\ "Description" \notin df.cols
        THEN [ok |-> FALSE, df |-> df]
        ELSE [ok |-> TRUE,
              df |-> [cols |-> cols2,
                      rows |-> [i \in DOMAIN df.rows |->
                        [c \in cols2 |->
                           IF c = "Transaction Date" THEN dates[i].s
                           ELSE IF c = "source" THEN Title(source)
                           ELSE IF c = "Description" /\ "Merchant" \in df.cols
                                   /\ ~IsNA(df.rows[i]["Merchant"])
                           THEN Str(df.rows[i]["Description"]) \o " - "
                                \o Str(df.rows[i]["Merchant"])
                           ELSE df.rows[i][c]]]]]

\* The columns normalize reads after the source mapping.
NeededCols ==
    {"Transaction Date", "Description", "Category", "Type", "Amount", "source"}

\* A normalize that reads a column the frame lacks as a column of missing
\* cells.
normalize_defaulting(df0, source) ==
    LET src_key == Lower(source)
        mapped  == src_key # "pre-merged union" /\ src_key \in DOMAIN mappings
        m       == IF mapped THEN MapSource(df0, source) ELSE [ok |-> TRUE, df |-> df0]
        fill(r) == [c \in NeededCols |-> IF c \in DOMAIN r THEN r[c] ELSE NA]
    IN  IF ~m.ok THEN Raised
        ELSE [ok |-> TRUE,
              rows |-> [i \in DOMAIN m.df.rows |-> CleanRow(fill(m.df.rows[i]))]]

\* normalize(df, source) on a frame of at least one row.  Each read of a
\* column the frame lacks raises KeyError, in the order of the reads.
normalize(df0, source) ==
    LET src_key == Lower(source)
        mapped  == src_key # "pre-merged union" /\ src_key \in DOMAIN mappings
        m       == IF mapped THEN MapSource(df0, source) ELSE [ok |-> TRUE, df |-> df0]
        cols    == m.df.cols
    IN  IF ~m.ok THEN Raised
        ELSE IF "Category" \notin cols THEN Raised       \* df["Category"]
        ELSE IF "Type" \notin cols THEN Raised           \* df["Type"]
        ELSE IF "Amount" \notin cols THEN Raised         \* row["Amount"]
        ELSE IF "Description" \notin cols THEN Raised    \* df["Description"]
        ELSE IF "Transaction Date" \notin cols \/ "source" \notin cols
        THEN Raised                                     \* _make_id(r)
        ELSE [ok |-> TRUE,
              rows |-> [i \in DOMAIN m.df.rows |-> CleanRow(m.df.rows[i])]]

-----------------------------------------------------------------------------
(* normalize on one uploaded frame.                                        *)

\* The rows of a frame never exceed this.
MaxRows == 1

\* The labels of the dashboard's selectbox.
SourceLabels == {"USAA", "Chase", "Apple", "Amex", "Frost", "Pre-merged Union"}

\* The column layouts of the uploaded statements.
Layouts ==
    {{"Transaction Date", "Description", "Category", "Type", "Amount", "source"},
     {"Date", "Description", "Category", "Type", "Amount"},
     {"Transaction Date", "Clearing Date", "Description", "Merchant",
      "Category", "Type", "Amount (USD)"}}

\* The cells a column of an uploaded statement may hold.
CellsOf(c) ==
    CASE c = "Transaction Date" -> {"2024-01-05"}
      [] c = "Date"             -> {"01/05/2024"}
      [] c = "Clearing Date"    -> {"2024-01-06"}
      [] c = "Description"      -> {"Coffee", "Automatic payment thank you-mobile - 7"}
      [] c = "Merchant"         -> {NA, "Starbucks"}
      [] c = "Category"         -> {"Food"}
      [] c = "Type"             -> {NA, "Deposit", "payment", "Wire Transfer", "ATM fee"}
      [] c = "source"           -> {"Chase"}
      [] OTHER                  -> {"$1,234.56", "-50", "abc"}

RECURSIVE RowsOver(_)
\* Every row over the columns cols.
RowsOver(cols) ==
    IF cols = {} THEN {<<>>}
    ELSE LET c == CHOOSE x \in cols : TRUE
         IN  {r @@ (c :> v) : r \in RowsOver(cols \ {c}), v \in CellsOf(c)}

Frames ==
    UNION {{[cols |-> cols, rows |-> rs] :
              rs \in UNION {[1..n -> RowsOver(cols)] : n \in 1..MaxRows}} :
           cols \in Layouts}

NzInit ==
    /\ nz_df \in Frames
    /\ nz_source \in SourceLabels
    /\ nz_out = [called |-> FALSE, ok |-> FALSE, rows |-> <<>>]

\* One call of normalize(df_raw, source).
NzCall ==
    /\ ~nz_out.called
    /\ nz_out' = [called |-> TRUE] @@ normalize(nz_df, nz_source)
    /\ UNCHANGED <<nz_df, nz_source, not_nz>>

-----------------------------------------------------------------------------
(* save_to_db and the transactions table.  A stored row is the tuple of    *)
(* values the INSERT was given.                                            *)

HasId(t, id) == \E s \in t : s.transaction_id = id

\* An INSERT with no ON CONFLICT clause: a taken key is a unique violation.
insert_plain(t, r) ==
    IF HasId(t, r.transaction_id)
    THEN [table |-> t, raised |-> TRUE]
    ELSE [table |-> t \cup {r}, raised |-> FALSE]

\* An INSERT ... ON CONFLICT (transaction_id) DO UPDATE: the new row wins.
insert_overwrite(t, r) ==
    [table  |-> {s \in t : s.transaction_id # r.transaction_id} \cup {r},
     raised |-> FALSE]

\* INSERT ... ON CONFLICT (transaction_id) DO NOTHING, on the rows t the
\* statement sees.
insert_or_ignore(t, r) ==
    IF HasId(t, r.transaction_id)
    THEN [table |-> t, raised |-> FALSE]
    ELSE [table |-> t \cup {r}, raised |-> FALSE]

RECURSIVE InsertFrom(_, _, _)
\* The loop of save_to_db from row i on; it stops at the first exception.
InsertFrom(t, rows, i) ==
    IF i > Len(rows) THEN [table |-> t, raised |-> FALSE]
    ELSE LET res == insert_or_ignore(t, rows[i])
         IN  IF res.raised THEN res ELSE InsertFrom(res.table, rows, i + 1)

\* save_to_db(df) run alone: the inserts and the commit, or the rollback of
\* the with-block when a statement raised.
save_to_db(t, rows) ==
    LET res == InsertFrom(t, rows, 1)
    IN  IF res.raised THEN [table |-> t, raised |-> TRUE] ELSE res

\* The rows of an uploaded statement never exceed this.
MaxBatch == 2

\* The column layout of a statement in the canonical format.
CanonCols ==
    {"Transaction Date", "Description", "Category", "Type", "Amount", "source"}

RawRow(date, description, category, type, amount, source) ==
    ("Transaction Date" :> date) @@ ("Description" :> description)
    @@ ("Category" :> category) @@ ("Type" :> type) @@ ("Amount" :> amount)
    @@ ("source" :> source)

\* The raw rows of the statements a session imports.
ImRowPool ==
    {RawRow("2024-01-05", "Coffee", "Food", "Sale", "-4.50", "Chase"),
     RawRow("2024-01-05", "Coffee", "Gas", NA, "-4.50", "Chase"),
     RawRow("2024-01-05", "A_B", "Misc", "Deposit", "20", "C"),
     RawRow("2024-01-05", "A", "Misc", "Deposit", "20", "B_C")}

FramesOver(pool) ==
    {[cols |-> CanonCols, rows |-> rs] :
        rs \in UNION {[1..n -> pool] : n \in 1..MaxBatch}}

\* Statements that lack one column of the canonical layout.
ShortFrames ==
    {[cols |-> CanonCols \ {c},
      rows |-> <<[k \in CanonCols \ {c} |->
                   RawRow("2024-01-05", "Coffee", "Food", "Sale", "-4.50", "Chase")[k]]>>] :
        c \in CanonCols}

ImInputs ==
    {[df |-> f, source |-> s] :
        f \in FramesOver(ImRowPool) \cup ShortFrames,
        s \in {"Chase", "Pre-merged Union"}}

\* The tables an earlier import leaves behind.
StartTables ==
    {{}} \cup {save_to_db({}, normalize(in.df, in.source).rows).table : in \in ImInputs}

ImInit ==
    /\ im_start \in StartTables
    /\ im_table = im_start
    /\ im_raw \in ImInputs
    /\ im_norm = Raised
    /\ im_pc = "upload"
    /\ im_runs = 0
    /\ im_after1 = {}
    /\ im_err = FALSE

\* A script run of dashboard.py with the statement uploaded:
\* df_normalized = normalize(pd.read_csv(uploaded_file), source).
ImNormalize ==
    /\ im_pc = "upload"
    /\ im_runs < 2
    /\ im_norm' = normalize(im_raw.df, im_raw.source)
    /\ im_pc' = "save"
    /\ UNCHANGED <<im_start, im_table, im_raw, im_runs, im_after1, im_err, not_im>>

\* "Save to Postgres" pressed: save_to_db(df_normalized).
ImSave ==
    /\ im_pc = "save"
    /\ im_norm.ok
    /\ LET res == save_to_db(im_table, im_norm.rows)
       IN  /\ im_table' = res.table
           /\ im_err' = (im_err \/ res.raised)
           /\ im_after1' = IF im_runs = 0 THEN res.table ELSE im_after1
    /\ im_runs' = im_runs + 1
    /\ im_pc' = "upload"
    /\ UNCHANGED <<im_start, im_raw, im_norm, not_im>>

-----------------------------------------------------------------------------
(* Two sessions running save_to_db at once, each in its own transaction.   *)

Procs == {1, 2}

StRowPool ==
    {RawRow("2024-01-05", "Coffee", "Food", "Sale", "-4.50", "Chase"),
     RawRow("2024-01-05", "Coffee", "Gas", NA, "-4.50", "Chase"),
     RawRow("2024-02-01", "Salary", NA, "Deposit", "$1,000.00", "Chase")}

StInputs ==
    {[df |-> f, source |-> "Pre-merged Union"] : f \in FramesOver(StRowPool)}

StInit ==
    /\ st_table = {}
    /\ st_sess \in [Procs -> {[pc |-> "upload", raw |-> in, rows |-> <<>>, i |-> 1,
                               pending |-> {}, skipped |-> {}] : in \in StInputs}]

\* The rows a statement of session p sees: the committed rows under the
\* rows its own transaction wrote.
Overlay(t, pending) ==
    {s \in t : ~HasId(pending, s.transaction_id)} \cup pending

\* Session p's next INSERT waits: another open transaction wrote its key.
Blocked(p) ==
    /\ st_sess[p].pc = "insert"
    /\ st_sess[p].i <= Len(st_sess[p].rows)
    /\ \E q \in Procs \ {p} :
          HasId(st_sess[q].pending, st_sess[p].rows[st_sess[p].i].transaction_id)

\* normalize, then the connect and CREATE ... IF NOT EXISTS of save_to_db.
StNormalize(p) ==
    /\ st_sess[p].pc = "upload"
    /\ LET res == normalize(st_sess[p].raw.df, st_sess[p].raw.source)
       IN  st_sess' = [st_sess EXCEPT ![p].rows = res.rows,
                                      ![p].pc = IF res.ok THEN "insert" ELSE "failed"]
    /\ UNCHANGED <<st_table, not_st>>

\* One cur.execute(INSERT ...) of the loop of save_to_db.
StInsert(p) ==
    /\ st_sess[p].pc = "insert"
    /\ st_sess[p].i <= Len(st_sess[p].rows)
    /\ ~Blocked(p)
    /\ LET s    == st_sess[p]
           r    == s.rows[s.i]
           seen == Overlay(st_table, s.pending)
           res  == insert_or_ignore(seen, r)
       IN  st_sess' = [st_sess EXCEPT
             ![p] = IF res.raised
                    THEN [s EXCEPT !.pc = "failed", !.pending = {}]
                    ELSE [s EXCEPT !.i = s.i + 1,
                                   !.pending = res.table \ st_table,
                                   !.skipped = IF HasId(st_table, r.transaction_id)
                                               THEN s.skipped \cup {r}
                                               ELSE s.skipped]]
    /\ UNCHANGED <<st_table, not_st>>

\* conn.commit()
StCommit(p) ==
    /\ st_sess[p].pc = "insert"
    /\ st_sess[p].i > Len(st_sess[p].rows)
    /\ st_table' = Overlay(st_table, st_sess[p].pending)
    /\ st_sess' = [st_sess EXCEPT ![p].pc = "done", ![p].pending = {}]
    /\ UNCHANGED not_st

\* Both sessions wait for each other: the database aborts p's transaction,
\* cur.execute raises and the with-block rolls back.
StDeadlock(p) ==
    /\ \A q \in Procs : Blocked(q)
    /\ st_sess' = [st_sess EXCEPT ![p].pc = "failed", ![p].pending = {}]
    /\ UNCHANGED <<st_table, not_st>>

-----------------------------------------------------------------------------
(* The saving_goals store and allocate_cash.  A date is <<year, month,     *)
(* day>>; the amounts of goals and balances are whole dollars.             *)

\* The ids the SERIAL sequence hands out never exceed this.
MaxGoalId == 3

DateLE(a, b) ==
    \/ a[1] < b[1]
    \/ a[1] = b[1] /\ a[2] < b[2]
    \/ a[1] = b[1] /\ a[2] = b[2] /\ a[3] <= b[3]

IsCatchAllName(name) == Lower(name) = "emergency fund"

\* The row ensure_emergency_fund inserts.
DefaultEmergencyFund(id) ==
    [id |-> id, name |-> "Emergency Fund", target_date |-> <<2100, 1, 1>>,
     target_amount |-> 15000]

\* ensure_emergency_fund(), as [goals, next_id] after it.
ensure_emergency_fund(goals, next_id) ==
    IF \E g \in goals : IsCatchAllName(g.name)
    THEN [goals |-> goals, next_id |-> next_id]
    ELSE [goals |-> goals \cup {DefaultEmergencyFund(next_id)},
          next_id |-> next_id + 1]

RECURSIVE OrderById(_)
\* SELECT * FROM saving_goals ORDER BY id, each row made a Goal
\* (allocation 0.0) by _dict_to_goal.
OrderById(goals) ==
    IF goals = {} THEN <<>>
    ELSE LET g == CHOOSE x \in goals : \A y \in goals : x.id <= y.id
         IN  <<g @@ [allocation |-> 0]>> \o OrderById(goals \ {g})

Min2(a, b) == IF a <= b THEN a ELSE b

Max2(a, b) == IF a >= b THEN a ELSE b

RECURSIVE InsertByDate(_, _)
\* g put into the date-sorted s after every goal dated no later than g.
InsertByDate(s, g) ==
    IF Len(s) = 0 THEN <<g>>
    ELSE IF DateLE(s[Len(s)].target_date, g.target_date) THEN Append(s, g)
    ELSE Append(InsertByDate(SubSeq(s, 1, Len(s) - 1), g), s[Len(s)])

RECURSIVE SortByDate(_)
\* others.sort(key=lambda g: g.target_date): a stable sort.
SortByDate(s) ==
    IF Len(s) = 0 THEN <<>>
    ELSE InsertByDate(SortByDate(SubSeq(s, 1, Len(s) - 1)), s[Len(s)])

RECURSIVE Fill(_, _)
\* The loop over others: [goals, remaining] after it.
Fill(others, remaining) ==
    IF Len(others) = 0 THEN [goals |-> <<>>, remaining |-> remaining]
    ELSE LET g     == others[1]
             need  == Max2(g.target_amount - g.allocation, 0)
             alloc == Min2(need, remaining)
             rest  == Fill(Tail(others), remaining - alloc)
         IN  [goals |-> <<[g EXCEPT !.allocation = alloc]>> \o rest.goals,
              remaining |-> rest.remaining]

\* The goals of s at the positions other than k, in order.
Without(s, k) ==
    [i \in 1..(Len(s) - 1) |-> IF i < k THEN s[i] ELSE s[i + 1]]

\* An allocate_cash that fills the goals in the order it was given them.
allocate_cash_unsorted(total_balance, goals) ==
    LET hits   == {i \in DOMAIN goals : IsCatchAllName(goals[i].name)}
        k      == IF hits = {} THEN 0 ELSE CHOOSE i \in hits : \A j \in hits : i <= j
        others == IF k = 0 THEN goals ELSE Without(goals, k)
        filled == Fill(others, total_balance)
    IN  IF k # 0
        THEN <<[goals[k] EXCEPT !.allocation = filled.remaining]>> \o filled.goals
        ELSE filled.goals

\* allocate_cash(total_balance, goals)
allocate_cash(total_balance, goals) ==
    LET hits   == {i \in DOMAIN goals : IsCatchAllName(goals[i].name)}
        k      == IF hits = {} THEN 0 ELSE CHOOSE i \in hits : \A j \in hits : i <= j
        others == SortByDate(IF k = 0 THEN goals ELSE Without(goals, k))
        filled == Fill(others, total_balance)
    IN  IF k # 0
        THEN <<[goals[k] EXCEPT !.allocation = filled.remaining]>> \o filled.goals
        ELSE filled.goals

GoalNames == {"Vacation", "Car", "emergency fund"}

\* The target dates and amounts entered for a goal.
GoalTargets ==
    {[date |-> <<2025, 6, 1>>, amount |-> 1000],
     [date |-> <<2025, 9, 1>>, amount |-> 2000],
     [date |-> <<2025, 6, 1>>, amount |-> 0],
     [date |-> <<2025, 9, 1>>, amount |-> -50]}

Balances == {-100, 0, 1500, 5000}

SgInit ==
    /\ sg_ready = FALSE
    /\ sg_goals = {}
    /\ sg_next_id = 1
    /\ sg_balance = 0
    /\ sg_view = <<>>
    /\ sg_called = FALSE
    /\ sg_progress = <<>>

\* init_db(): the table is created if absent, then ensure_emergency_fund().
init_db ==
    /\ (\E g \in sg_goals : IsCatchAllName(g.name)) \/ sg_next_id <= MaxGoalId
    /\ LET e == ensure_emergency_fund(sg_goals, sg_next_id)
       IN  sg_goals' = e.goals /\ sg_next_id' = e.next_id
    /\ sg_ready' = TRUE
    /\ UNCHANGED <<sg_balance, sg_view, sg_called, sg_progress, not_sg>>

\* add_goal(name, target_date, amount): the INSERT raises on a taken name
\* (UNIQUE, compared as written) or a negative amount (CHECK), and the
\* sequence keeps the id it drew.  The page reruns after it.
add_goal(name, target_date, amount) ==
    /\ sg_ready
    /\ sg_next_id <= MaxGoalId
    /\ sg_goals' =
          IF (\E g \in sg_goals : g.name = name) \/ amount < 0 THEN sg_goals
          ELSE sg_goals \cup {[id |-> sg_next_id, name |-> name,
                               target_date |-> target_date,
                               target_amount |-> amount]}
    /\ sg_next_id' = sg_next_id + 1
    /\ sg_view' = <<>> /\ sg_called' = FALSE /\ sg_progress' = <<>>
    /\ UNCHANGED <<sg_ready, sg_balance, not_sg>>

\* update_goal(goal_id, target_date, amount): the UPDATE raises on a
\* negative amount (CHECK).  The page reruns after it.
update_goal(goal_id, target_date, amount) ==
    /\ sg_ready
    /\ sg_goals' =
          IF amount < 0 THEN sg_goals
          ELSE {IF g.id = goal_id
                THEN [g EXCEPT !.target_date = target_date, !.target_amount = amount]
                ELSE g : g \in sg_goals}
    /\ sg_view' = <<>> /\ sg_called' = FALSE /\ sg_progress' = <<>>
    /\ UNCHANGED <<sg_ready, sg_next_id, sg_balance, not_sg>>

\* delete_goal(goal_id).  The page reruns after it.
delete_goal(goal_id) ==
    /\ sg_ready
    /\ sg_goals' = {g \in sg_goals : g.id # goal_id}
    /\ sg_view' = <<>> /\ sg_called' = FALSE /\ sg_progress' = <<>>
    /\ UNCHANGED <<sg_ready, sg_next_id, sg_balance, not_sg>>

\* The progress main computes for one goal shown,
\*   0.0 if g.target_amount == 0 else min(g.allocation / g.target_amount, 1.0),
\* as the fraction num/den with den > 0.
progress(g) ==
    IF g.target_amount = 0 THEN [num |-> 0, den |-> 1]
    ELSE LET sgn == IF g.target_amount < 0 THEN -1 ELSE 1
             n   == sgn * g.allocation
             d   == sgn * g.target_amount
         IN  IF n >= d THEN [num |-> 1, den |-> 1] ELSE [num |-> n, den |-> d]

\* A run of main() with the balance entered: init_db(), the goals fetched
\* and made Goal objects, allocate_cash, the progress of each goal shown.
main(total_balance) ==
    /\ (\E g \in sg_goals : IsCatchAllName(g.name)) \/ sg_next_id <= MaxGoalId
    /\ LET e == ensure_emergency_fund(sg_goals, sg_next_id)
           goals == allocate_cash(total_balance, OrderById(e.goals))
       IN  /\ sg_goals' = e.goals
           /\ sg_next_id' = e.next_id
           /\ sg_view' = goals
           /\ sg_progress' = [i \in DOMAIN goals |-> progress(goals[i])]
    /\ sg_ready' = TRUE
    /\ sg_balance' = total_balance
    /\ sg_called' = TRUE
    /\ UNCHANGED not_sg

-----------------------------------------------------------------------------
(* The classifiers on their own.                                           *)

\* The cells of a Category or Type column.
ClassifierTexts ==
    {NA, "", "  ", "Food", "Fast Food & Grocery", "grocery food", "Grocery Store",
     "GAS station", "Fuel", "Restaurant Bill", "Airline", "Hotel Gift Shop",
     "Movies", "Utility", "Medical", " Retail ", "Late Charge", "Donation",
     "Auto", "Home Health", "Misc", "Miscellaneous Fees", "  atm fee ", "o'neil pub",
     "Deposit", "Return Payment", "payment return", "Debit Card Purchase",
     "Wire Transfer", "Interest Income", "Transfer Interest", "Interest",
     "PAYMENT", "Withdrawal", "Sale", "Other"}

ClInit ==
    /\ cl_text \in ClassifierTexts
    /\ cl_out = [cat_called |-> FALSE, category |-> "", tp_called |-> FALSE, type |-> ""]

\* One call of clean_category.
ClCategory ==
    /\ ~cl_out.cat_called
    /\ cl_out' = [cl_out EXCEPT !.cat_called = TRUE, !.category = clean_category(cl_text)]
    /\ UNCHANGED <<cl_text, not_cl>>

\* One call of clean_type.
ClType ==
    /\ ~cl_out.tp_called
    /\ cl_out' = [cl_out EXCEPT !.tp_called = TRUE, !.type = clean_type(cl_text)]
    /\ UNCHANGED <<cl_text, not_cl>>

-----------------------------------------------------------------------------
(* find_monthly_subscriptions.  A transaction is [description,             *)
(* amount_changed, transaction_date]; a month (a pandas Period of          *)
(* frequency M) is <<year, month>>, and NA where the date is missing.      *)

\* The characters of the descriptions, in code-point order.
CodePoints == " -0123456789ABCDEFGHIJKLMNOPQRSTUVWXYZabcdefghijklmnopqrstuvwxyz"

Ord(c) == CHOOSE i \in 1..Len(CodePoints) : CharAt(CodePoints, i) = c

RECURSIVE StrLess(_, _)
\* a < b on str.
StrLess(a, b) ==
    IF Len(b) = 0 THEN FALSE
    ELSE IF Len(a) = 0 THEN TRUE
    ELSE IF CharAt(a, 1) = CharAt(b, 1)
    THEN StrLess(SubSeq(a, 2, Len(a)), SubSeq(b, 2, Len(b)))
    ELSE Ord(CharAt(a, 1)) < Ord(CharAt(b, 1))

\* pd.to_datetime(date).to_period("M") of one cell.
MonthOf(date) ==
    IF IsNA(date) THEN NA
    ELSE LET s == ToDatetime(date).s
         IN  <<ParseNat(SubSeq(s, 1, 4)), ParseNat(SubSeq(s, 6, 7))>>

MonthLE(a, b) == a[1] < b[1] \/ (a[1] = b[1] /\ a[2] <= b[2])

\* The rows of df[df["amount_changed"] < 0]; every amount cell of the
\* model holds a number.
Spend(df) == SelectSeq(df, LAMBDA r : r.amount_changed < 0)

\* The keys of groupby(["description", "amount_changed"]): a row with a
\* missing key is left out (dropna=True).
GroupKeys(spend) ==
    {<<spend[i].description, spend[i].amount_changed>> :
        i \in {j \in DOMAIN spend : ~IsNA(spend[j].description)}}

\* The months of the rows of one group, the missing ones left out, as
\* nunique, min and max see them.
GroupMonths(spend, k) ==
    {MonthOf(spend[i].transaction_date) :
        i \in {j \in DOMAIN spend :
                  /\ <<spend[j].description, spend[j].amount_changed>> = k
                  /\ ~IsNA(spend[j].transaction_date)}}

\* The rows of one group.
GroupRows(spend, k) ==
    {i \in DOMAIN spend : <<spend[i].description, spend[i].amount_changed>> = k}

KeyLess(a, b) == StrLess(a[1], b[1]) \/ (a[1] = b[1] /\ a[2] < b[2])

RECURSIVE SortedKeys(_)
\* The group keys in the order groupby gives them (sort=True).
SortedKeys(ks) ==
    IF ks = {} THEN <<>>
    ELSE LET k == CHOOSE x \in ks : \A y \in ks \ {x} : KeyLess(x, y)
         IN  <<k>> \o SortedKeys(ks \ {k})

\* One row of the aggregate, renamed, with the amount made positive.
SubsRow(k, months) ==
    [Description |-> k[1], Amount |-> Abs(k[2]), Months |-> Cardinality(months)]
    @@ ("First Month" :>
          IF months = {} THEN NA
          ELSE CHOOSE m \in months : \A n \in months : MonthLE(m, n))
    @@ ("Last Month" :>
          IF months = {} THEN NA
          ELSE CHOOSE m \in months : \A n \in months : MonthLE(n, m))

RECURSIVE InsertByAmountDesc(_, _)
\* r put into s, sorted by Amount descending, after every row whose Amount
\* is no smaller.
InsertByAmountDesc(s, r) ==
    IF Len(s) = 0 THEN <<r>>
    ELSE IF s[Len(s)].Amount >= r.Amount THEN Append(s, r)
    ELSE Append(InsertByAmountDesc(SubSeq(s, 1, Len(s) - 1), r), s[Len(s)])

RECURSIVE SortByAmountDesc(_)
\* subs.sort_values(by="Amount", ascending=False); rows of equal Amount
\* keep their order (the default sort of a short column is an insertion sort).
SortByAmountDesc(s) ==
    IF Len(s) = 0 THEN <<>>
    ELSE InsertByAmountDesc(SortByAmountDesc(SubSeq(s, 1, Len(s) - 1)), s[Len(s)])

\* A detector that counts the charges of a group, not the months they fall in.
find_monthly_subscriptions_counting_rows(df, min_months) ==
    LET spend   == Spend(df)
        keys    == SortedKeys(GroupKeys(spend))
        grouped == [i \in DOMAIN keys |-> SubsRow(keys[i], GroupMonths(spend, keys[i]))]
        subs    == SelectSeq([i \in DOMAIN keys |->
                                [r |-> grouped[i],
                                 n |-> Cardinality(GroupRows(spend, keys[i]))]],
                             LAMBDA x : x.n >= min_months)
    IN  SortByAmountDesc([i \in DOMAIN subs |-> subs[i].r])

\* find_monthly_subscriptions(df, min_months)
find_monthly_subscriptions(df, min_months) ==
    LET spend   == Spend(df)
        keys    == SortedKeys(GroupKeys(spend))
        grouped == [i \in DOMAIN keys |-> SubsRow(keys[i], GroupMonths(spend, keys[i]))]
        subs    == SelectSeq(grouped, LAMBDA r : r.Months >= min_months)
    IN  SortByAmountDesc(subs)

\* The rows of a transactions frame never exceed this.
MaxTxns == 3

Txn(description, amount_changed, transaction_date) ==
    [description |-> description, amount_changed |-> amount_changed,
     transaction_date |-> transaction_date]

TxnPool ==
    {Txn("Streaming Co", -999, "2024-01-05"), Txn("Streaming Co", -999, "2024-01-20"),
     Txn("Streaming Co", -999, "2024-02-05"), Txn("Streaming Co", -999, "2024-03-05"),
     Txn("Streaming Co", -999, "2025-01-05"), Txn("Streaming Co", -999, NA),
     Txn("Streaming Co", 999, "2024-01-05"), Txn("Streaming Co", 999, "2024-02-05"),
     Txn("Streaming Co", 999, "2024-03-05"), Txn("Streaming Co", -1000, "2024-03-05"),
     Txn("Gym", -999, "2024-02-05"), Txn(NA, -999, "2024-01-05")}

MinMonths == {1, 2, 3}

FsInit ==
    /\ fs_df \in UNION {[1..n -> TxnPool] : n \in 0..MaxTxns}
    /\ fs_min \in MinMonths
    /\ fs_out = [called |-> FALSE, subs |-> <<>>]

\* One call of find_monthly_subscriptions(df, min_months).
FsCall ==
    /\ ~fs_out.called
    /\ fs_out' = [called |-> TRUE, subs |-> find_monthly_subscriptions(fs_df, fs_min)]
    /\ UNCHANGED <<fs_df, fs_min, not_fs>>

-----------------------------------------------------------------------------
(* allocate_cash called more than once on one list of Goal objects: the    *)
(* call writes each object's allocation field, and the next call of the    *)
(* same caller reads it.                                                   *)

\* The calls of allocate_cash on one list never exceed this.
MaxCalls == 2

\* The stored goals the caller's list is made from.
AcGoalPool ==
    {DefaultEmergencyFund(1),
     [id |-> 2, name |-> "Vacation", target_date |-> <<2025, 6, 1>>, target_amount |-> 1000],
     [id |-> 3, name |-> "Car", target_date |-> <<2025, 9, 1>>, target_amount |-> 2000],
     [id |-> 4, name |-> "Laptop", target_date |-> <<2025, 3, 1>>, target_amount |-> 0]}

\* The caller's list after allocate_cash returned view: the same objects
\* in the same order, each holding the allocation the call gave it.
goals_after(goals, view) ==
    [i \in DOMAIN goals |->
        view[CHOOSE j \in DOMAIN view : view[j].id = goals[i].id]]

AcInit ==
    /\ ac_goals \in {OrderById(s) : s \in SUBSET AcGoalPool}
    /\ ac_balance \in Balances
    /\ ac_views = <<>>

\* One call allocate_cash(total_balance, goals) on the caller's list.
AcCall ==
    /\ Len(ac_views) < MaxCalls
    /\ LET view == allocate_cash(ac_balance, ac_goals)
       IN  /\ ac_views' = Append(ac_views, view)
           /\ ac_goals' = goals_after(ac_goals, view)
    /\ UNCHANGED <<ac_balance, not_ac>>

-----------------------------------------------------------------------------
(* The specifications.                                                     *)

CaIdle == ca_row = [Amount |-> "0", Type |-> NA] /\ ca_out = [called |-> FALSE, v |-> 0]

NzIdle ==
    /\ nz_df = [cols |-> {}, rows |-> <<>>]
    /\ nz_source = ""
    /\ nz_out = [called |-> FALSE, ok |-> FALSE, rows |-> <<>>]

ImIdle ==
    /\ im_start = {} /\ im_table = {} /\ im_raw = [df |-> [cols |-> {}, rows |-> <<>>], source |-> ""]
    /\ im_norm = Raised /\ im_pc = "upload" /\ im_runs = 0
    /\ im_after1 = {} /\ im_err = FALSE

StIdle == st_table = {} /\ st_sess = <<>>

SgIdle == SgInit

ClIdle ==
    /\ cl_text = NA
    /\ cl_out = [cat_called |-> FALSE, category |-> "", tp_called |-> FALSE, type |-> ""]

FsIdle == fs_df = <<>> /\ fs_min = 3 /\ fs_out = [called |-> FALSE, subs |-> <<>>]

AcIdle == ac_goals = <<>> /\ ac_balance = 0 /\ ac_views = <<>>

\* Every part other than the first five at rest.
RestIdle == ClIdle /\ FsIdle /\ AcIdle

\* clean_amount applied to one row.
AmountInit == CaInit /\ NzIdle /\ ImIdle /\ StIdle /\ SgIdle /\ RestIdle

AmountNext == CaCall

SpecAmount == AmountInit /\ [][AmountNext]_vars

\* normalize applied to one uploaded frame.
NormalizeInit == CaIdle /\ NzInit /\ ImIdle /\ StIdle /\ SgIdle /\ RestIdle

NormalizeNext == NzCall

SpecNormalize == NormalizeInit /\ [][NormalizeNext]_vars

\* One session importing the same statement twice.
ImportInit == CaIdle /\ NzIdle /\ ImInit /\ StIdle /\ SgIdle /\ RestIdle

ImportNext == ImNormalize \/ ImSave

SpecImport == ImportInit /\ [][ImportNext]_vars

\* Two sessions importing at once.
StoreInit == CaIdle /\ NzIdle /\ ImIdle /\ StInit /\ SgIdle /\ RestIdle

StoreNext ==
    \E p \in Procs : StNormalize(p) \/ StInsert(p) \/ StCommit(p) \/ StDeadlock(p)

SpecStore == StoreInit /\ [][StoreNext]_vars

\* The savings-goal page.
GoalsInit == CaIdle /\ NzIdle /\ ImIdle /\ StIdle /\ SgInit /\ RestIdle

GoalsNext ==
    \/ init_db
    \/ \E n \in GoalNames, g \in GoalTargets : add_goal(n, g.date, g.amount)
    \/ \E i \in 1..MaxGoalId, g \in GoalTargets : update_goal(i, g.date, g.amount)
    \/ \E i \in 1..MaxGoalId : delete_goal(i)
    \/ \E b \in Balances : main(b)

SpecGoals == GoalsInit /\ [][GoalsNext]_vars

\* Every part other than the last three at rest.
CoreIdle == CaIdle /\ NzIdle /\ ImIdle /\ StIdle /\ SgIdle

\* The classifiers applied to one cell.
ClassifyInit == CoreIdle /\ ClInit /\ FsIdle /\ AcIdle

ClassifyNext == ClCategory \/ ClType

SpecClassify == ClassifyInit /\ [][ClassifyNext]_vars

\* find_monthly_subscriptions applied to one frame of transactions.
SubscriptionsInit == CoreIdle /\ ClIdle /\ FsInit /\ AcIdle

SubscriptionsNext == FsCall

SpecSubscriptions == SubscriptionsInit /\ [][SubscriptionsNext]_vars

\* allocate_cash called repeatedly on one list of Goal objects.
AllocateInit == CoreIdle /\ ClIdle /\ FsIdle /\ AcInit

AllocateNext == AcCall

SpecAllocate == AllocateInit /\ [][AllocateNext]_vars

\* The default specification: the two concurrent sessions.
Init == StoreInit

Next == StoreNext

Spec == Init /\ [][Next]_vars

-----------------------------------------------------------------------------
(* The claims.                                                             *)

\* C1: importing the same statement a second time (normalize, then
\* save_to_db) leaves the table exactly as the first import left it, and
\* neither save raises.
C1_ImportIdempotent ==
    im_runs = 2 => (im_table = im_after1 /\ ~im_err)

\* C1 witness: both imports are done, the first one added rows to a table
\* that already held some, and the statement carries one key twice with
\* different categories.
C1_Witness ==
    /\ im_runs = 2
    /\ im_start # {}
    /\ im_after1 # im_start
    /\ Len(im_norm.rows) = 2
    /\ im_norm.rows[1].transaction_id = im_norm.rows[2].transaction_id
    /\ im_norm.rows[1].category # im_norm.rows[2].category

StFinished == \A p \in Procs : st_sess[p].pc \in {"done", "failed"}

\* What the two statements leave when session 1 saves before session 2 starts.
SerialTable ==
    save_to_db(save_to_db({}, normalize(st_sess[1].raw.df, st_sess[1].raw.source).rows).table,
               normalize(st_sess[2].raw.df, st_sess[2].raw.source).rows).table

\* C2: once both concurrent sessions have finished, the table holds the same
\* rows whatever the interleaving was, that is the rows a serial run leaves.
C2_Convergence ==
    StFinished => st_table = SerialTable

\* C3: no step of save_to_db alters or removes a stored row, and an INSERT
\* whose transaction_id is already stored changes nothing and does not raise:
\* the session goes on to its next row with its transaction as it was.
C3_InsertOrIgnoreFrame ==
    [][/\ \A s \in st_table : s \in st_table'
       /\ \A p \in Procs :
            (/\ st_sess[p].pc = "insert"
             /\ st_sess[p].i <= Len(st_sess[p].rows)
             /\ HasId(st_table, st_sess[p].rows[st_sess[p].i].transaction_id)
             /\ st_sess'[p] # st_sess[p])
            => /\ st_table' = st_table
               /\ st_sess'[p].pc = "insert"
               /\ st_sess'[p].i = st_sess[p].i + 1
               /\ st_sess'[p].pending = st_sess[p].pending]_vars

\* C3 witness: a session has committed after one of its inserts met a stored
\* row with the same key and another category, and the stored row is there.
C3_Witness ==
    \E p \in Procs :
        /\ st_sess[p].pc = "done"
        /\ \E r \in st_sess[p].skipped :
              \E s \in st_table :
                  s.transaction_id = r.transaction_id /\ s.category # r.category

RECURSIVE SumAlloc(_, _, _)
\* The allocations of v[a..b] added up.
SumAlloc(v, a, b) == IF a > b THEN 0 ELSE v[b].allocation + SumAlloc(v, a, b - 1)

\* C4: for a balance >= 0 and fresh goals with a catch-all among them, the
\* result lists the catch-all first and then the other goals by ascending
\* target_date; each of these gets min(target_amount, balance minus what the
\* goals before it got) and the catch-all gets the whole rest.
C4_WaterfallFill ==
    (sg_called /\ sg_balance >= 0) =>
        LET v == sg_view
            n == Len(v)
        IN  /\ n = Cardinality(sg_goals)
            /\ {[id |-> v[i].id, name |-> v[i].name, target_date |-> v[i].target_date,
                 target_amount |-> v[i].target_amount] : i \in 1..n} = sg_goals
            /\ n >= 1 /\ IsCatchAllName(v[1].name)
            /\ \A i \in 2..(n - 1) : DateLE(v[i].target_date, v[i + 1].target_date)
            /\ \A i \in 2..n :
                  v[i].allocation =
                      Min2(v[i].target_amount, sg_balance - SumAlloc(v, 2, i - 1))
            /\ v[1].allocation = sg_balance - SumAlloc(v, 2, n)

\* C4 witness: the example of targets 1000, 2000 and catch-all 15000 with
\* balance 1500, the later goal stored before the earlier one.
C4_Witness ==
    /\ sg_called /\ sg_balance = 1500 /\ Len(sg_view) = 3
    /\ sg_view[1].target_amount = 15000 /\ sg_view[1].allocation = 0
    /\ sg_view[2].target_amount = 1000 /\ sg_view[2].allocation = 1000
    /\ sg_view[3].target_amount = 2000 /\ sg_view[3].allocation = 500
    /\ sg_view[3].id < sg_view[2].id

\* C5: for a balance <= 0 every goal other than the catch-all is given the
\* allocation 0.
C5_NonPositiveBalance ==
    (sg_called /\ sg_balance <= 0) =>
        \A i \in 2..Len(sg_view) : sg_view[i].allocation = 0

\* C6: once init_db has run, exactly one stored goal is named 'Emergency
\* Fund' ignoring letter case.
C6_OneCatchAll ==
    sg_ready => Cardinality({g \in sg_goals : IsCatchAllName(g.name)}) = 1

\* The number, in hundredths, each amount text of AmountTexts denotes once
\* '$', ',' and the surrounding blanks are gone; the others denote none.
DenotedValue ==
    ("$1,234.56" :> 123456) @@ ("-50" :> -5000) @@ ("50" :> 5000)
    @@ (" 12.5 " :> 1250) @@ ("-$7.25" :> -725) @@ ("+3" :> 300)
    @@ (".5" :> 50) @@ ("5." :> 500) @@ ("0" :> 0)

\* The hints of TypeHints that are, lower-cased, an inflow word.
InflowHints == {"Deposit", "income", "RETURN", "credit"}

\* The hints of TypeHints that are, lower-cased, an outflow word.
OutflowHints == {"Payment", "withdrawal", "Debit", "purchase"}

\* C7: clean_amount gives |v| under an inflow hint, -|v| under an outflow
\* hint and v itself under any other hint, v being the number the amount
\* text denotes, and 0 for a text that denotes none.
C7_SignPolicy ==
    ca_out.called =>
        LET a == ca_row.Amount
            h == ca_row.Type
        IN  IF a \in DOMAIN DenotedValue
            THEN LET v == DenotedValue[a]
                 IN  ca_out.v = (IF h \in InflowHints THEN (IF v < 0 THEN -v ELSE v)
                                 ELSE IF h \in OutflowHints THEN (IF v < 0 THEN v ELSE -v)
                                 ELSE v)
            ELSE ca_out.v = 0

\* C7 witness: hint 'Payment' with '$1,234.56' has given -1234.56.
C7_Witness ==
    /\ ca_out.called
    /\ ca_row.Type = "Payment" /\ ca_row.Amount = "$1,234.56"
    /\ ca_out.v = -123456

\* The rows normalize has emitted: the stored ones and those of this run.
Emitted == im_table \cup {im_norm.rows[i] : i \in DOMAIN im_norm.rows}

\* C8: two emitted rows have the same transaction_id exactly when they agree
\* on transaction date, amount_changed, description and source.
C8_FaithfulKey ==
    \A r \in Emitted, s \in Emitted :
        (r.transaction_id = s.transaction_id)
        <=> (/\ r.transaction_date = s.transaction_date
             /\ r.amount_changed = s.amount_changed
             /\ r.description = s.description
             /\ r.source = s.source)

NzRows == {nz_out.rows[i] : i \in DOMAIN nz_out.rows}

\* C9: a row whose description contains 'Payment Thank You-Mobile -' in any
\* letter case has transaction_type and type 'Payment'; any other row has
\* transaction_type 'Income' for a positive amount_changed and 'Spending'
\* otherwise.
C9_TransactionType ==
    \A r \in NzRows :
        /\ r.transaction_type \in {"Income", "Spending", "Payment"}
        /\ IF ~IsNA(r.description)
              /\ Contains(Lower(r.description), "payment thank you-mobile -")
           THEN r.transaction_type = "Payment" /\ r.type = "Payment"
           ELSE /\ r.amount_changed > 0 => r.transaction_type = "Income"
                /\ r.amount_changed <= 0 => r.transaction_type = "Spending"

\* C9 witness: a mobile payment with a positive amount came out as Payment.
C9_Witness ==
    \E r \in NzRows :
        /\ Contains(Lower(r.description), "payment thank you-mobile -")
        /\ r.amount_changed > 0
        /\ r.transaction_type = "Payment" /\ r.type = "Payment"

TypeVocabulary == {"Income", "Spending", "Transfer", "Interest", "Payment", "Other"}

TypeKeywords ==
    {"deposit", "income", "return", "payment", "withdrawal", "purchase",
     "debit", "transfer", "interest"}

\* C10 as claimed: the type of every emitted row is one of Income, Spending,
\* Transfer, Interest, Payment, Other.
C10_ClosedVocabulary ==
    \A r \in NzRows : r.type \in TypeVocabulary

\* C10 as amended: the type of every emitted row is one of Income, Spending,
\* Transfer, Interest, Payment, Other, or it is the raw type lower-cased,
\* trimmed and title-cased, the raw type holding no keyword of a type group.
C10_TypeVocabularyOrTitle ==
    \A i \in DOMAIN nz_out.rows :
        LET raw == nz_df.rows[i]["Type"]
        IN  \/ nz_out.rows[i].type \in TypeVocabulary
            \/ /\ ~IsNA(raw)
               /\ ~AnyIn(Lower(raw), TypeKeywords)
               /\ nz_out.rows[i].type = Title(Strip(Lower(raw)))

\* C10 witness: the raw type 'ATM fee' came out as 'Atm Fee'.
C10_Witness ==
    \E i \in DOMAIN nz_out.rows :
        nz_df.rows[i]["Type"] = "ATM fee" /\ nz_out.rows[i].type = "Atm Fee"

CategoryRules ==
    <<[label |-> "Food & Drink",       keys |-> {"food", "restaurant", "drink"}],
      [label |-> "Gas",                keys |-> {"gas", "fuel"}],
      [label |-> "Groceries",          keys |-> {"grocery"}],
      [label |-> "Travel",             keys |-> {"travel", "airline", "hotel"}],
      [label |-> "Entertainment",      keys |-> {"entertainment", "movies", "theater"}],
      [label |-> "Utilities",          keys |-> {"utility", "bill"}],
      [label |-> "Health & Wellness",  keys |-> {"health", "medical"}],
      [label |-> "Shopping",           keys |-> {"shop", "retail", "clothing"}],
      [label |-> "Fees & Adjustments", keys |-> {"fees", "adjustment", "charge"}],
      [label |-> "Gifts & Donations",  keys |-> {"donation", "gift"}],
      [label |-> "Personal & Home",    keys |-> {"personal", "home", "auto"}],
      [label |-> "Misc",               keys |-> {"misc"}]>>

TypeRules ==
    <<[label |-> "Income",   keys |-> {"deposit", "income", "return"}],
      [label |-> "Spending", keys |-> {"payment", "withdrawal", "purchase", "debit"}],
      [label |-> "Transfer", keys |-> {"transfer"}],
      [label |-> "Interest", keys |-> {"interest"}]>>

\* The label of the first group of rules with a keyword inside the
\* lower-cased trimmed x, the title-cased trimmed x when there is none, and
\* absent for a missing x.
FirstMatch(rules, x, absent) ==
    IF x = NA THEN absent
    ELSE LET s    == Lower(Strip(x))
             hits == {i \in DOMAIN rules :
                        \E k \in rules[i].keys :
                            \E a \in 0..(Len(s) - Len(k)) :
                                SubSeq(s, a + 1, a + Len(k)) = k}
         IN  IF hits = {} THEN Title(Strip(x))
             ELSE rules[CHOOSE i \in hits : \A j \in hits : i <= j].label

\* C11: clean_category and clean_type return 'Uncategorized' and 'Other' for
\* a missing cell, and for a text the label of the first group, in the fixed
\* order, with a keyword inside the lower-cased trimmed text, or the
\* title-cased trimmed text when no group matches; text with both 'food' and
\* 'grocery' is Food & Drink, text with both 'return' and 'payment' is Income.
C11_FirstMatch ==
    /\ cl_out.cat_called =>
          /\ cl_out.category = FirstMatch(CategoryRules, cl_text, "Uncategorized")
          /\ (cl_text # NA /\ Contains(Lower(cl_text), "food")
                /\ Contains(Lower(cl_text), "grocery"))
             => cl_out.category = "Food & Drink"
    /\ cl_out.tp_called =>
          /\ cl_out.type = FirstMatch(TypeRules, cl_text, "Other")
          /\ (cl_text # NA /\ Contains(Lower(cl_text), "return")
                /\ Contains(Lower(cl_text), "payment"))
             => cl_out.type = "Income"

\* C11 witness: 'payment return' came out as type Income, and as its own
\* title-cased text for a category.
C11_Witness ==
    /\ cl_text = "payment return"
    /\ cl_out.tp_called /\ cl_out.type = "Income"
    /\ cl_out.cat_called /\ cl_out.category = "Payment Return"

\* C12 as claimed: under each of the labels USAA, Chase, Apple, Amex and
\* Frost, every row normalize emits carries the source normalize stamped
\* (the label, title-cased), never the source cell of the raw row.
C12_KnownLabelsMapped ==
    (nz_out.called /\ nz_out.ok
        /\ nz_source \in {"USAA", "Chase", "Apple", "Amex", "Frost"})
    => \A i \in DOMAIN nz_out.rows : nz_out.rows[i].source = Title(nz_source)

\* The month a date text "YYYY-MM-DD" falls in.
MonthText(date) == SubSeq(date, 1, 7)

\* The distinct months holding a transaction of description d and amount a.
MonthsTouched(d, a) ==
    {MonthText(fs_df[i].transaction_date) :
        i \in {j \in DOMAIN fs_df :
                  /\ fs_df[j].description = d
                  /\ fs_df[j].amount_changed = a
                  /\ fs_df[j].transaction_date # NA}}

\* C13: find_monthly_subscriptions reports the pair (d, m) exactly when the
\* input has transactions of description d and amount_changed -m < 0 in at
\* least min_months distinct calendar months; every reported amount is
\* positive, so no inflow is reported, and no pair is reported twice.
C13_RecurringCharges ==
    fs_out.called =>
        /\ \A d \in {"Streaming Co", "Gym"}, m \in {999, 1000} :
              (\E i \in DOMAIN fs_out.subs :
                  fs_out.subs[i].Description = d /\ fs_out.subs[i].Amount = m)
              <=> Cardinality(MonthsTouched(d, -m)) >= fs_min
        /\ \A i \in DOMAIN fs_out.subs :
              /\ fs_out.subs[i].Description \in {"Streaming Co", "Gym"}
              /\ fs_out.subs[i].Amount \in {999, 1000}
        /\ \A i \in DOMAIN fs_out.subs, j \in DOMAIN fs_out.subs :
              (fs_out.subs[i].Description = fs_out.subs[j].Description
               /\ fs_out.subs[i].Amount = fs_out.subs[j].Amount) => i = j

\* C13 witness: three monthly charges of -9.99 with min_months = 3 are
\* reported as one subscription of 9.99 over three months.
C13_Witness ==
    /\ fs_out.called /\ fs_min = 3 /\ Len(fs_df) = 3
    /\ \A i \in DOMAIN fs_df :
          fs_df[i].description = "Streaming Co" /\ fs_df[i].amount_changed = -999
    /\ Len(fs_out.subs) = 1
    /\ fs_out.subs[1].Description = "Streaming Co"
    /\ fs_out.subs[1].Amount = 999 /\ fs_out.subs[1].Months = 3

\* C14 as claimed: every goal shown whose target_amount is zero has the
\* progress value 1.0.
C14_ZeroTargetComplete ==
    sg_called =>
        \A i \in DOMAIN sg_view :
            sg_view[i].target_amount = 0 => sg_progress[i].num = sg_progress[i].den

\* The columns of the uploaded statement after the source mapping.
ColsAfterMapping ==
    LET key == Lower(im_raw.source)
    IN  IF key \in {"usaa", "chase", "apple", "frost", "american_express"}
        THEN {IF c \in DOMAIN mappings[key] THEN mappings[key][c] ELSE c :
                 c \in im_raw.df.cols} \cup {"source"}
        ELSE im_raw.df.cols

\* C15: when the statement lacks, after the source mapping, one of
\* Transaction Date, Description, Category, Type, Amount and source,
\* normalize raises and hands back no row, save_to_db is never called and
\* the table stays as it was.
C15_MissingColumnFails ==
    ~({"Transaction Date", "Description", "Category", "Type", "Amount", "source"}
        \subseteq ColsAfterMapping)
    => /\ im_pc = "save" => (~im_norm.ok /\ im_norm.rows = <<>>)
       /\ im_runs = 0
       /\ im_table = im_start
       /\ ~im_err

\* C15 witness: normalize was called on a statement without a Type column
\* and raised.
C15_Witness ==
    /\ "Type" \notin ColsAfterMapping
    /\ im_pc = "save" /\ ~im_norm.ok /\ im_norm.rows = <<>>
    /\ im_runs = 0 /\ im_table = im_start

\* TRUE when the amount text x denotes a number.
AmountParses(x) ==
    x # NA /\ ParseFloat(Strip(Remove(Remove(x, "$"), ","))).ok

\* C16 as claimed: a row given to normalize whose raw Type, lower-cased, is
\* an outflow word and whose Amount parses is emitted with amount_changed
\* and amount <= 0, and one whose raw Type is an inflow word with both >= 0.
C16_SignPolicyInPipeline ==
    (nz_out.called /\ nz_out.ok /\ "Amount" \in nz_df.cols) =>
        \A i \in DOMAIN nz_out.rows :
            LET raw == nz_df.rows[i]
                out == nz_out.rows[i]
            IN  (raw["Type"] # NA /\ AmountParses(raw["Amount"])) =>
                  /\ Lower(raw["Type"]) \in {"payment", "withdrawal", "debit", "purchase"}
                     => (out.amount_changed <= 0 /\ out.amount <= 0)
                  /\ Lower(raw["Type"]) \in {"income", "deposit", "return", "credit"}
                     => (out.amount_changed >= 0 /\ out.amount >= 0)

\* C17 as claimed: a second call of allocate_cash with the same balance on
\* the same Goal objects gives every goal the allocation the first call
\* gave it.
C17_Repeatable ==
    Len(ac_views) >= 2 =>
        \A i \in DOMAIN ac_views[1], j \in DOMAIN ac_views[2] :
            ac_views[1][i].id = ac_views[2][j].id
            => ac_views[1][i].allocation = ac_views[2][j].allocation

=============================================================================
